---- MODULE Spec2Model ----
(***************************************************************************)
(* Model of SimplexDialog (scripts/SimplexUI/simplexInterfaceDialog.py):   *)
(* the controller that wires the slider tree and the combo tree to a       *)
(* Simplex system, the host DCC's scene and its undo stack.                *)
(*                                                                         *)
(* The dialog is one record, ui, holding the fields of the dialog and of   *)
(* the widgets and host objects its handlers read and write.  Every method *)
(* of the dialog is an operator from a dialog record to a dialog record,   *)
(* so that a handler that calls other handlers (or triggers them through a *)
(* Qt signal) is the composition of their operators.  An action applies    *)
(* one top-level handler to ui for one choice of the user's inputs.        *)
(***************************************************************************)
EXTENDS Integers, Sequences, FiniteSets, TLC

VARIABLES
    ui,     \* the dialog, its widgets, the loaded system and the host scene
    batch   \* the progress-tracked batch operation in flight

vars == <<ui, batch>>

----------------------------------------------------------------------------
(* Bounds *)

NumObjects == 2     \* meshes of the host scene
MaxRev == 2         \* the host's revision counter ranges over 0..MaxRev
MaxChunks == 2      \* undo chunks left open before another drag is refused
MaxSystems == 3     \* simplex operators in the scene before newSystem is refused

Objects == 1..NumObjects
Revisions == 0..MaxRev
SysIds == 1..(MaxRev + 3)   \* identities of Simplex objects (always one spare)

\* Python's None, for an object reference and for a string
NoneObj == 0
NoneStr == "<None>"

\* DCC.getObjectName
ObjName(o) == CASE o = 1 -> "Face" [] o = 2 -> "Body" [] OTHER -> "Mesh"

\* the system names the scene, the name dialog and the import files offer
SysNames == {"Face", "Sys"}

\* the items of the slider tree (two Sliders and a Group) and of the combo tree
Sliders == {"s1", "s2"}
SliderItems == Sliders \cup {"g1"}
ComboItems == {"c1", "c2"}

\* self.simplex = None
NoSystem == [id |-> 0, name |-> "", mesh |-> NoneObj]

IsLoaded(d) == d.simplex.id /= 0

----------------------------------------------------------------------------
(* Tree models *)

\* a tree that was never given a model: QTreeView.model() is None
NoSliderModel == [kind |-> "none", isolateList |-> {}]
NoComboModel ==
    [kind |-> "none", requires |-> {}, hasFlags |-> FALSE, filterRequiresAll |-> FALSE,
     filterRequiresAny |-> FALSE, filterRequiresOnly |-> FALSE, isolateList |-> {}]

\* QStandardItemModel(): an empty model with none of the filter attributes
StandardSliderModel == [NoSliderModel EXCEPT !.kind = "standard"]
StandardComboModel == [NoComboModel EXCEPT !.kind = "standard"]

\* SliderFilterModel(sliderModel) / ComboFilterModel(comboModel)
SliderFilterModel == [NoSliderModel EXCEPT !.kind = "filter"]
ComboFilterModel == [NoComboModel EXCEPT !.kind = "filter", !.hasFlags = TRUE]

\* a selection model with no slot connected
NoConnections ==
    [unifySliderSelection |-> 0, populateComboRequirements |-> 0, unifyComboSelection |-> 0]

\* Stack(): no revision holds data
EmptyStack == [r \in Revisions |-> 0]

----------------------------------------------------------------------------
(* The dialog after __init__ *)

\* the scene the dialog is opened in: the first mesh carries two systems
InitialScene == [o \in Objects |-> IF o = 1 THEN <<"Sys", "Face">> ELSE <<>>]

SimplexDialogInit ==
    [simplex |-> NoSystem,
     currentObject |-> NoneObj,
     currentObjectName |-> NoneStr,
     uiCurrentObjectTXT |-> "",
     cboxItems |-> <<>>,
     cboxIndex |-> -1,
     clearBtnVisible |-> FALSE,
     shapeGroupEnabled |-> FALSE,
     comboGroupEnabled |-> FALSE,
     connectionGroupEnabled |-> FALSE,
     sliderExitIsolateVisible |-> FALSE,
     comboExitIsolateVisible |-> FALSE,
     sliderModel |-> NoSliderModel,
     comboModel |-> NoComboModel,
     sliderSel |-> {},
     comboSel |-> {},
     weights |-> [s \in Sliders |-> 0],
     conn |-> NoConnections,
     chkAll |-> FALSE,
     chkAny |-> FALSE,
     chkOnly |-> FALSE,
     chkLock |-> FALSE,
     stack |-> EmptyStack,
     dccRev |-> 0,
     sceneOps |-> InitialScene,
     expanded |-> FALSE,
     err |-> "",
     lastOp |-> "init",
     input |-> "",
     readRev |-> -1,
     warned |-> "",
     created |-> {},
     stackId |-> 0,
     stackSerial |-> 1,
     models |-> <<>>,
     falloffModels |-> <<>>,
     setLog |-> <<>>,
     written |-> "",
     pressed |-> FALSE,
     undoOpens |-> <<>>,
     closedUnopened |-> FALSE]

\* a handler starts on the user's input: nothing raised yet, no expansion
\* restored yet, no revision read yet, no warning shown yet, no item created yet,
\* no system set yet
Begin(d, op, input) ==
    [d EXCEPT !.lastOp = op, !.input = input, !.err = "", !.expanded = FALSE,
              !.readRev = -1, !.warned = "", !.created = {}, !.setLog = <<>>,
              !.written = ""]

\* an exception leaves the handler
Raise(d, e) == [d EXCEPT !.err = e]

----------------------------------------------------------------------------
(* Helpers *)

Min(S) == CHOOSE x \in S : \A y \in S : x <= y

\* the identity of a newly built Simplex object: none that is still referenced
FreshId(d) == Min(SysIds \ ({d.simplex.id} \cup {d.stack[r] : r \in Revisions}))

\* QComboBox.currentText()
CurrentText(d) == IF d.cboxIndex = -1 THEN "" ELSE d.cboxItems[d.cboxIndex + 1]

\* QComboBox.findText(text): the first index holding text, or -1
FindText(d, text) ==
    IF \E i \in 1..Len(d.cboxItems) : d.cboxItems[i] = text
    THEN Min({i \in 1..Len(d.cboxItems) : d.cboxItems[i] = text}) - 1
    ELSE -1

----------------------------------------------------------------------------
(* dependency setup *)

\* enableComboRequirements: copy the three checkboxes to the combo model
EnableComboRequirements(d) ==
    IF d.comboModel.kind = "none" THEN d
    ELSE LET set == [d EXCEPT !.comboModel.filterRequiresAll = d.chkAll,
                              !.comboModel.filterRequiresAny = d.chkAny,
                              !.comboModel.filterRequiresOnly = d.chkOnly,
                              !.comboModel.hasFlags = TRUE]
         IN  IF d.comboModel.kind = "filter" THEN set
             \* a QStandardItemModel has no invalidateFilter
             ELSE Raise(set, "AttributeError")

\* uiSliderTREE.getSelectedItems(Slider): the selected items that are Sliders
SelectedSliders(d) == d.sliderSel \cap Sliders

\* populateComboRequirements handing over every selected item, Slider or not
PopulateAnyItem(d) ==
    IF ~d.chkLock THEN [d EXCEPT !.comboModel.requires = d.sliderSel] ELSE d

\* populateComboRequirements: hand the selected sliders to the combo model
PopulateComboRequirements(d) ==
    LET set == IF ~d.chkLock
               THEN [d EXCEPT !.comboModel.requires = SelectedSliders(d)]
               ELSE d
        filtering == \/ set.comboModel.filterRequiresAll
                     \/ set.comboModel.filterRequiresAny
                     \/ set.comboModel.filterRequiresOnly
    IN  IF ~set.comboModel.hasFlags THEN Raise(set, "AttributeError")
        ELSE IF filtering /\ set.comboModel.kind /= "filter" THEN Raise(set, "AttributeError")
        ELSE set

\* setLockComboRequirement that forgets to repopulate
SetLockOnly(d) == d

\* setLockComboRequirement: the Lock checkbox changed
SetLockComboRequirement(d) ==
    IF d.comboModel.kind = "none" THEN d ELSE PopulateComboRequirements(d)

\* _setComboRequirements that leaves the other boxes as they are
SetComboRequirementsKeepOthers(d, skip) == EnableComboRequirements(d)

\* _setComboRequirements(skip): uncheck the other two boxes, signals blocked
SetComboRequirements(d, skip) ==
    EnableComboRequirements(
        [d EXCEPT !.chkAny = IF skip = "Any" THEN @ ELSE FALSE,
                  !.chkAll = IF skip = "All" THEN @ ELSE FALSE,
                  !.chkOnly = IF skip = "Only" THEN @ ELSE FALSE])

----------------------------------------------------------------------------
(* selection setup *)

\* QItemSelectionModel.clearSelection() on the slider tree, inside
\* signalsBlocked(sliderSelModel): no selectionChanged is emitted
ClearSliderSelectionBlocked(d) == [d EXCEPT !.sliderSel = {}]

\* QItemSelectionModel.clearSelection() on the combo tree, inside
\* signalsBlocked(comboSelModel): no selectionChanged is emitted
ClearComboSelectionBlocked(d) == [d EXCEPT !.comboSel = {}]

\* unifyComboSelection; mods: Ctrl or Shift is held
UnifyComboSelection(d, mods) ==
    IF ~mods THEN ClearSliderSelectionBlocked(d) ELSE d

\* the combo tree's selection model emits selectionChanged
ComboSelectionChanged(d, mods) ==
    IF d.conn.unifyComboSelection > 0 THEN UnifyComboSelection(d, mods) ELSE d

\* unifySliderSelection without signalsBlocked: clearing the combo selection
\* emits selectionChanged, which runs the combo tree's slot
UnifySliderSelectionUnblocked(d, mods) ==
    IF mods THEN d
    ELSE IF d.comboSel = {} THEN d
    ELSE ComboSelectionChanged(ClearComboSelectionBlocked(d), mods)

\* unifySliderSelection; mods: Ctrl or Shift is held
UnifySliderSelection(d, mods) ==
    IF ~mods THEN ClearComboSelectionBlocked(d) ELSE d

\* the slider tree's selection model emits selectionChanged: its slots run in
\* the order setSystem connected them
SliderSelectionChanged(d, mods) ==
    LET unified == IF d.conn.unifySliderSelection > 0
                   THEN UnifySliderSelection(d, mods) ELSE d
    IN  IF d.conn.populateComboRequirements > 0
        THEN PopulateComboRequirements(unified) ELSE unified

----------------------------------------------------------------------------
(* Undo/Redo and system level *)

\* setSimplexLegacy: also bumps the host's revision
SetSimplexLegacy(d) ==
    IF IsLoaded(d) THEN [d EXCEPT !.dccRev = @ + 1] ELSE d

\* Stack(): a new object, none that was made before (serials alternate: at most
\* one stack is in use at a time)
NewStackId(d) == 3 - d.stackSerial

\* one setSystem call that changed the system, as the handler's log keeps it
SetSystemEntry(before, after) ==
    [wasLoaded |-> IsLoaded(before),
     nowLoaded |-> IsLoaded(after),
     stackKept |-> after.stackId = before.stackId /\ after.stack = before.stack,
     stackFresh |-> /\ after.stackId \notin {0, before.stackId, before.stackSerial}
                    /\ after.stack = EmptyStack,
     listsEmpty |-> after.models = <<>> /\ after.falloffModels = <<>>]

\* setSystem, lines 241-248: disconnect the three slots from the current
\* selection models; disconnecting a slot that is not connected raises
DisconnectPrevious(d) ==
    IF d.conn.unifySliderSelection = 0 THEN Raise(d, "disconnect")
    ELSE IF d.conn.populateComboRequirements = 0
    THEN Raise([d EXCEPT !.conn.unifySliderSelection = @ - 1], "disconnect")
    ELSE IF d.conn.unifyComboSelection = 0
    THEN Raise([d EXCEPT !.conn.unifySliderSelection = @ - 1,
                         !.conn.populateComboRequirements = @ - 1], "disconnect")
    ELSE [d EXCEPT !.conn.unifySliderSelection = @ - 1,
                   !.conn.populateComboRequirements = @ - 1,
                   !.conn.unifyComboSelection = @ - 1]

\* setSystem(None) that forgets to disable the connection group
SetSystemNoneKeepsConnectionGroup(d) ==
    [d EXCEPT !.sliderModel = StandardSliderModel,
              !.comboModel = StandardComboModel,
              !.sliderSel = {}, !.comboSel = {},
              !.conn = NoConnections,
              !.simplex = NoSystem,
              !.stack = EmptyStack,
              !.shapeGroupEnabled = FALSE,
              !.comboGroupEnabled = FALSE]

\* setSystem, lines 254-264: no system; both trees get an empty standard model
\* (and with it a new selection model: nothing selected, nothing connected)
SetSystemNone(d) ==
    [d EXCEPT !.sliderModel = StandardSliderModel,
              !.comboModel = StandardComboModel,
              !.sliderSel = {}, !.comboSel = {},
              !.conn = NoConnections,
              !.simplex = NoSystem,
              !.stack = EmptyStack,
              !.stackId = 0,
              !.shapeGroupEnabled = FALSE,
              !.comboGroupEnabled = FALSE,
              !.connectionGroupEnabled = FALSE]

\* setSystem that connects unifySliderSelection a second time
SetSystemLoadConnectsTwice(d, system, oldStack) ==
    LET models == [d EXCEPT !.simplex = system,
                            !.stack = oldStack,
                            !.sliderModel = SliderFilterModel,
                            !.comboModel = ComboFilterModel,
                            !.sliderSel = {}, !.comboSel = {},
                            !.conn = [unifySliderSelection |-> 2,
                                      populateComboRequirements |-> 1,
                                      unifyComboSelection |-> 1]]
    IN  SetSimplexLegacy([EnableComboRequirements(models) EXCEPT
                            !.shapeGroupEnabled = TRUE,
                            !.comboGroupEnabled = TRUE,
                            !.connectionGroupEnabled = TRUE])

\* setSystem that gives every system it loads a Stack() of its own
SetSystemLoadOwnStack(d, system, oldStack) ==
    LET models == [d EXCEPT !.simplex = system,
                            !.stack = EmptyStack,
                            !.stackId = NewStackId(d),
                            !.stackSerial = NewStackId(d),
                            !.models = <<>>,
                            !.falloffModels = <<>>,
                            !.sliderModel = SliderFilterModel,
                            !.comboModel = ComboFilterModel,
                            !.sliderSel = {}, !.comboSel = {},
                            !.conn = [unifySliderSelection |-> 1,
                                      populateComboRequirements |-> 1,
                                      unifyComboSelection |-> 1]]
    IN  SetSimplexLegacy([EnableComboRequirements(models) EXCEPT
                            !.shapeGroupEnabled = TRUE,
                            !.comboGroupEnabled = TRUE,
                            !.connectionGroupEnabled = TRUE])

\* setSystem, lines 266-298: the new system takes over the old stack (the Stack()
\* of line 252 when no system was loaded), both trees get new filter models, the
\* slots are connected to the new selection models
SetSystemLoad(d, system, oldStack) ==
    LET models == [d EXCEPT !.simplex = system,
                            !.stack = oldStack,
                            !.stackId = IF IsLoaded(d) THEN @ ELSE NewStackId(d),
                            !.stackSerial = IF IsLoaded(d) THEN @ ELSE NewStackId(d),
                            !.models = <<>>,
                            !.falloffModels = <<>>,
                            !.sliderModel = SliderFilterModel,
                            !.comboModel = ComboFilterModel,
                            !.sliderSel = {}, !.comboSel = {},
                            !.conn = [unifySliderSelection |-> 1,
                                      populateComboRequirements |-> 1,
                                      unifyComboSelection |-> 1]]
        enabled == [EnableComboRequirements(models) EXCEPT
                            !.shapeGroupEnabled = TRUE,
                            !.comboGroupEnabled = TRUE,
                            !.connectionGroupEnabled = TRUE]
    IN  SetSimplexLegacy(enabled)

\* setSystem
SetSystem(d, system) ==
    IF system.id = d.simplex.id THEN d
    ELSE LET disc == IF IsLoaded(d) THEN DisconnectPrevious(d) ELSE d
             oldStack == IF IsLoaded(d) THEN d.stack ELSE EmptyStack
             set == IF system.id = 0 THEN SetSystemNone(disc)
                    ELSE SetSystemLoad(disc, system, oldStack)
         IN  IF disc.err /= "" THEN disc
             ELSE [set EXCEPT !.setLog = Append(@, SetSystemEntry(d, set))]

\* Simplex.buildSystemFromMesh(self._currentObject, name): a new Simplex object
\* for the system of that name on the current object
BuildSystemFromMesh(d, name) ==
    [id |-> FreshId(d), name |-> name, mesh |-> d.currentObject]

\* currentSystemChanged(idx)
CurrentSystemChanged(d, idx) ==
    IF idx = -1 THEN SetSystem(d, NoSystem)
    ELSE IF CurrentText(d) = "" THEN SetSystem(d, NoSystem)
    ELSE IF IsLoaded(d) /\ d.simplex.name = CurrentText(d) THEN d
    ELSE SetSystem(d, BuildSystemFromMesh(d, CurrentText(d)))

\* uiCurrentSystemCBOX.clear(): emits currentIndexChanged(-1) when an entry was
\* current and the box's signals are not blocked
CboxClear(d, blocked) ==
    LET cleared == [d EXCEPT !.cboxItems = <<>>, !.cboxIndex = -1]
    IN  IF d.cboxIndex /= -1 /\ ~blocked THEN CurrentSystemChanged(cleared, -1)
        ELSE cleared

\* uiCurrentSystemCBOX.addItem(name): the first entry of an empty box becomes
\* current, which emits currentIndexChanged(0)
CboxAddItem(d, name, blocked) ==
    LET added == [d EXCEPT !.cboxItems = Append(@, name),
                           !.cboxIndex = IF d.cboxIndex = -1 THEN 0 ELSE @]
    IN  IF d.cboxIndex = -1 /\ ~blocked THEN CurrentSystemChanged(added, 0)
        ELSE added

\* uiCurrentSystemCBOX.setCurrentIndex(idx)
CboxSetCurrentIndex(d, idx, blocked) ==
    IF idx = d.cboxIndex THEN d
    ELSE LET set == [d EXCEPT !.cboxIndex = idx]
         IN  IF blocked THEN set ELSE CurrentSystemChanged(set, idx)

RECURSIVE AddOperators(_, _, _)
\* loadObject, lines 880-886: one entry per simplex operator on the object
AddOperators(d, names, blocked) ==
    IF names = <<>> \/ d.err /= "" THEN d
    ELSE AddOperators(CboxAddItem(d, Head(names), blocked), Tail(names), blocked)

\* loadObject(thing); blocked: the caller holds the system box's signals blocked
LoadObject(d, thing, blocked) ==
    IF thing = NoneObj THEN d
    ELSE LET cleared == CboxClear([d EXCEPT !.clearBtnVisible = TRUE], blocked)
             named == [cleared EXCEPT !.currentObject = thing,
                                      !.currentObjectName = ObjName(thing),
                                      !.uiCurrentObjectTXT = ObjName(thing)]
         IN  IF cleared.err /= "" THEN cleared
             ELSE AddOperators(named, d.sceneOps[thing], blocked)

\* clearSelectedObject
ClearSelectedObject(d) ==
    LET cleared == CboxClear([d EXCEPT !.clearBtnVisible = FALSE], FALSE)
        reset == [cleared EXCEPT !.currentObject = NoneObj,
                                 !.currentObjectName = NoneStr,
                                 !.uiCurrentObjectTXT = ""]
    IN  IF cleared.err /= "" THEN cleared ELSE SetSystem(reset, NoSystem)

\* newScene
NewSceneHandler(d) == ClearSelectedObject(d)

\* handleUndo without the test for missing data: setSystem(None) on a revision
\* the stack does not hold
HandleUndoUnchecked(d) ==
    IF ~IsLoaded(d) THEN Raise(d, "AttributeError")
    ELSE LET data == d.stack[d.dccRev]
             read == [d EXCEPT !.readRev = d.dccRev]
         IN  [SetSystem(read, IF data = 0 THEN NoSystem
                              ELSE [id |-> data, name |-> d.simplex.name,
                                    mesh |-> d.simplex.mesh])
                 EXCEPT !.expanded = TRUE]

\* handleUndo: look the host's revision up in the loaded system's stack
HandleUndoHandler(d) ==
    IF ~IsLoaded(d) THEN Raise(d, "AttributeError")
    ELSE LET rev == d.dccRev
             data == d.stack[rev]
             read == [d EXCEPT !.readRev = rev]
         IN  IF data = 0 THEN read
             ELSE LET set == SetSystem(read, [id |-> data, name |-> d.simplex.name,
                                              mesh |-> d.simplex.mesh])
                  IN  IF set.err /= "" THEN set ELSE [set EXCEPT !.expanded = TRUE]

\* Simplex.buildSystemFromSmpx / buildSystemFromJson: a new Simplex object named
\* as the file says, on the current object or, with none, on the file's mesh
BuildSystemFromFile(d, name, mesh) ==
    [id |-> FreshId(d), name |-> name,
     mesh |-> IF d.currentObject /= NoneObj THEN d.currentObject ELSE mesh]

\* the operator a newly built system leaves on its mesh
WithOperator(d, system) ==
    IF \E i \in 1..Len(d.sceneOps[system.mesh]) : d.sceneOps[system.mesh][i] = system.name
    THEN d
    ELSE [d EXCEPT !.sceneOps[system.mesh] = Append(@, system.name)]

\* importSystemFromFile, lines 1003-1012: show the new system's mesh and select
\* an entry of the system box, its signals blocked, then load the system
ShowImported(d, newSystem) ==
    LET loaded == LoadObject(d, newSystem.mesh, TRUE)
        idx == FindText(loaded, loaded.currentObjectName)
        picked == IF idx >= 0 THEN CboxSetCurrentIndex(loaded, idx, TRUE)
                  ELSE LET added == CboxAddItem(loaded, newSystem.name, TRUE)
                       IN  CboxSetCurrentIndex(added, Len(added.cboxItems) - 1, TRUE)
    IN  SetSystem(picked, newSystem)

\* importSystemFromFile; ext: how the chosen path ends ("" when the file dialog
\* returned no path)
ImportSystemFromFileHandler(d, ext, name, mesh) ==
    IF ext = "" THEN d
    ELSE IF ext \notin {"smpx", "json"} THEN Raise(d, "UnboundLocalError")
    ELSE LET newSystem == BuildSystemFromFile(d, name, mesh)
         IN  ShowImported(WithOperator(d, newSystem), newSystem)

\* currentObjectChanged: the object field was edited to name
CurrentObjectChangedHandler(d, name) ==
    IF d.currentObjectName = name THEN d
    ELSE IF name = "" THEN d
    ELSE IF \E o \in Objects : ObjName(o) = name
    THEN LoadObject(d, CHOOSE o \in Objects : ObjName(o) = name, FALSE)
    ELSE d

\* getSelectedObject; first: the first object selected in the scene, or None
GetSelectedObjectHandler(d, first) ==
    IF first = NoneObj THEN d ELSE LoadObject(d, first, FALSE)

\* an edit through an undoable method of the system: the host moves to the next
\* revision and the stack keeps a copy of the system for it
StackableEdit(d) ==
    [d EXCEPT !.dccRev = @ + 1, !.stack[d.dccRev + 1] = FreshId(d)]

----------------------------------------------------------------------------
(* Isolation *)

\* isSliderIsolate / isComboIsolate: only a filter model has an isolateList
IsSliderIsolate(d) == d.sliderModel.kind = "filter" /\ d.sliderModel.isolateList /= {}
IsComboIsolate(d) == d.comboModel.kind = "filter" /\ d.comboModel.isolateList /= {}

\* SliderTree.isolateSelected / exitIsolate on a filter model
TreeIsolateSelected(model, sel) == [model EXCEPT !.isolateList = sel]
TreeExitIsolate(model) == [model EXCEPT !.isolateList = {}]

\* sliderIsolateSelected
SliderIsolateSelected(d) ==
    [d EXCEPT !.sliderModel = TreeIsolateSelected(@, d.sliderSel),
              !.sliderExitIsolateVisible = TRUE]

\* sliderTreeExitIsolate
SliderTreeExitIsolate(d) ==
    [d EXCEPT !.sliderModel = TreeExitIsolate(@), !.sliderExitIsolateVisible = FALSE]

\* comboIsolateSelected
ComboIsolateSelected(d) ==
    [d EXCEPT !.comboModel = TreeIsolateSelected(@, d.comboSel),
              !.comboExitIsolateVisible = TRUE]

\* comboTreeExitIsolate
ComboTreeExitIsolate(d) ==
    [d EXCEPT !.comboModel = TreeExitIsolate(@), !.comboExitIsolateVisible = FALSE]

----------------------------------------------------------------------------
(* Names entered in the input dialogs *)

\* the characters of a name
Letters == {"G", "r", "p"}
Digits == {"2"}

\* \w of a regular expression: a letter, a digit or the underscore
WordChars == Letters \cup Digits \cup {"_"}

\* the names a user types into an input dialog, character by character
Spell(name) ==
    CASE name = "Grp"  -> <<"G", "r", "p">>
      [] name = "2Grp" -> <<"2", "G", "r", "p">>
      [] name = "Gr p" -> <<"G", "r", " ", "p">>
      [] OTHER -> <<>>

EnteredNames == {"", "Grp", "2Grp", "Gr p"}

RECURSIVE WordRun(_, _)
\* [\w.]* from position i: the end of the longest run of word characters and dots
WordRun(chars, i) ==
    IF i <= Len(chars) /\ chars[i] \in WordChars \cup {"."}
    THEN WordRun(chars, i + 1)
    ELSE i - 1

\* NAME_CHECK.match(name): the end of the match of [A-Za-z][\w.]* at the start
\* of the name, or -1 for None
NameCheckMatch(chars) ==
    IF chars /= <<>> /\ chars[1] \in Letters THEN WordRun(chars, 2) ELSE -1

\* "not NAME_CHECK.match(newName)": None is false, a match object is true
NameRejected(name) == NameCheckMatch(Spell(name)) = -1

\* QMessageBox.warning
Warn(d, message) == [d EXCEPT !.warned = message]

\* Group.createGroup / Slider.createSlider on the loaded system; also a system
\* built or renamed under the name
CreateItem(d, kind, name) ==
    [d EXCEPT !.created = @ \cup {[kind |-> kind, name |-> name]}]

\* newSliderGroup / newComboGroup / newSlider; good: the input dialog was accepted
NewNamedItem(d, kind, newName, good) ==
    IF ~IsLoaded(d) THEN d
    ELSE IF ~good THEN d
    ELSE IF NameRejected(newName) THEN Warn(d, "name")
    ELSE CreateItem(d, kind, newName)

\* newSliderGroup
NewSliderGroupHandler(d, newName, good) == NewNamedItem(d, "sliderGroup", newName, good)

\* newComboGroup
NewComboGroupHandler(d, newName, good) == NewNamedItem(d, "comboGroup", newName, good)

\* newSlider
NewSliderHandler(d, newName, good) == NewNamedItem(d, "slider", newName, good)

\* Simplex.buildEmptySystem(self._currentObject, newName)
BuildEmptySystem(d, newName) ==
    [id |-> FreshId(d), name |-> newName, mesh |-> d.currentObject]

\* newSystem
NewSystemHandler(d, newName, good) ==
    IF d.currentObject = NoneObj THEN Warn(d, "object")
    ELSE IF ~good THEN d
    ELSE IF NameRejected(newName) THEN Warn(d, "name")
    ELSE LET newSystem == BuildEmptySystem(d, newName)
             made == WithOperator(d, newSystem)
             added == CboxAddItem(made, newName, TRUE)
             picked == CboxSetCurrentIndex(added, Len(added.cboxItems) - 1, TRUE)
         IN  SetSystem(CreateItem(picked, "system", newName), newSystem)

\* the names getNextName makes up for a name that is taken
NumberedNames == {"Name1", "Name2", "Name3", "Name4", "Name5"}

\* utils.getNextName(name, names): name itself unless it is taken, then a
\* numbered name that is not
GetNextName(name, names) ==
    IF \E i \in 1..Len(names) : names[i] = name
    THEN CHOOSE n \in NumberedNames : \A i \in 1..Len(names) : names[i] /= n
    ELSE name

\* the operator of the loaded system takes the system's new name
RenameOperator(d, nn) ==
    [d EXCEPT !.sceneOps[d.simplex.mesh] =
                  [i \in 1..Len(@) |-> IF @[i] = d.simplex.name THEN nn ELSE @[i]]]

\* renameSystem
RenameSystemHandler(d, name, good) ==
    IF ~IsLoaded(d) THEN d
    ELSE IF ~good THEN d
    ELSE IF NameRejected(name) THEN Warn(d, "name")
    ELSE LET nn == GetNextName(name, d.cboxItems)
             named == [CreateItem(RenameOperator(d, nn), "systemName", nn)
                          EXCEPT !.simplex.name = nn]
             shown == IF named.cboxIndex = -1 THEN named
                      ELSE [named EXCEPT !.cboxItems[named.cboxIndex + 1] = nn]
         IN  CurrentSystemChanged(shown, shown.cboxIndex)

----------------------------------------------------------------------------
(* Undo chunks of a drag *)

\* simplex.DCC.undoOpen(): the DCC of the loaded system opens an undo chunk
UndoOpen(d) == [d EXCEPT !.undoOpens = Append(@, d.simplex.id)]

\* the chunks still open on the DCC of the loaded system
OpenHere(d) == {i \in 1..Len(d.undoOpens) : d.undoOpens[i] = d.simplex.id}

\* simplex.DCC.undoClose(): the DCC of the loaded system closes its innermost
\* open chunk; with none open the close has no open to answer
UndoClose(d) ==
    IF OpenHere(d) = {} THEN [d EXCEPT !.closedUnopened = TRUE]
    ELSE LET k == CHOOSE i \in OpenHere(d) : \A j \in OpenHere(d) : j <= i
         IN  [d EXCEPT !.undoOpens = SubSeq(@, 1, k - 1) \o SubSeq(@, k + 1, Len(@))]

\* dragStart
DragStartHandler(d) == IF IsLoaded(d) THEN UndoOpen(d) ELSE d

\* dragStop
DragStopHandler(d) == IF IsLoaded(d) THEN UndoClose(d) ELSE d

----------------------------------------------------------------------------
(* The content of a loaded system *)

\* the orders in which a set can be iterated
Orders(S) ==
    {q \in [1..Cardinality(S) -> S] : \A i, j \in 1..Cardinality(S) : q[i] = q[j] => i = j}

\* simplex.sliders and simplex.combos, in list order
SliderList == <<"s1", "s2">>
ComboList == <<"c1", "c2">>

\* combo.pairs: the sliders a combo depends on, each with its value (in tenths)
ComboPairs(c) ==
    CASE c = "c1" -> <<[slider |-> "s1", value |-> 10], [slider |-> "s2", value |-> 5]>>
      [] OTHER -> <<[slider |-> "s2", value |-> -10]>>

----------------------------------------------------------------------------
(* Slider weights *)

\* the values a slider can be dragged to (in tenths)
WeightValues == {0, 7}

RECURSIVE SetSlidersWeights(_, _)
\* simplex.setSlidersWeights(sliders, weights), as a list of slider/value
\* pairs applied in order
SetSlidersWeights(d, pairs) ==
    IF pairs = <<>> THEN d
    ELSE SetSlidersWeights([d EXCEPT !.weights[Head(pairs).slider] = Head(pairs).value],
                           Tail(pairs))

\* zeroAllSliders, lines 512-518
ZeroAllSliders(d) ==
    IF ~IsLoaded(d) THEN d
    ELSE SetSlidersWeights(d, [i \in 1..Len(SliderList) |->
                                  [slider |-> SliderList[i], value |-> 0]])

RECURSIVE AllComboPairs(_)
\* the pairs of the combos, combo after combo
AllComboPairs(combos) ==
    IF combos = <<>> THEN <<>>
    ELSE ComboPairs(Head(combos)) \o AllComboPairs(Tail(combos))

RECURSIVE FirstPairs(_, _)
\* setSliderVals, lines 654-659: the pairs in order, less those whose slider
\* was taken before
FirstPairs(pairs, taken) ==
    IF pairs = <<>> THEN <<>>
    ELSE IF Head(pairs).slider \in taken THEN FirstPairs(Tail(pairs), taken)
    ELSE <<Head(pairs)>> \o FirstPairs(Tail(pairs), taken \cup {Head(pairs).slider})

\* every pair of the combos, taken or not
SliderValsEveryPair(combos) == AllComboPairs(combos)

\* setSliderVals, lines 652-659: the sliders and values handed to
\* setSlidersWeights
SliderVals(combos) == FirstPairs(AllComboPairs(combos), {})

\* setSliderVals, lines 646-661; combos: getSelectedItems(Combo)
SetSliderValsHandler(d, combos) ==
    IF ~IsLoaded(d) THEN d
    ELSE SetSlidersWeights(ZeroAllSliders(d), SliderVals(combos))

----------------------------------------------------------------------------
(* Exporting a template *)

\* what the save dialog returns: "" when it is cancelled, else a path, told by
\* its ending
ExportPaths == {"", ".smpx", ".json", ".txt"}

\* self.simplex.exportAbc(path, pBar) / f.write(self.simplex.dump()): the file
\* of the format is written
WriteSystem(d, format) == [d EXCEPT !.written = format]

\* exportSystemTemplate, lines 1034-1065; path: the path fileDialog returns
ExportSystemTemplateHandler(d, path) ==
    IF d.currentObject = NoneObj
    THEN Warn(d, "Must have a current object selection")
    ELSE IF path = "" THEN d
    ELSE IF path \in {".smpx", ".json"}
    THEN \* None has neither exportAbc nor dump
         IF ~IsLoaded(d) THEN Raise(d, "AttributeError")
         ELSE WriteSystem(d, path)
    ELSE d

----------------------------------------------------------------------------
(* Actions of the dialog: one per signal the user or the host can raise *)

\* the host's revision counter stays within the bound
RevisionCapped == ui'.dccRev <= MaxRev

\* uiGetSelectedObjectBTN.clicked
GetSelectedObject ==
    \E first \in Objects \cup {NoneObj} :
        /\ ui' = GetSelectedObjectHandler(Begin(ui, "getSelectedObject", first), first)
        /\ RevisionCapped
        /\ UNCHANGED batch

\* uiCurrentObjectTXT.editingFinished
CurrentObjectChanged ==
    \E name \in {ObjName(o) : o \in Objects} \cup {"", "Nothing"} :
        /\ ui' = CurrentObjectChangedHandler(
                    [Begin(ui, "currentObjectChanged", name) EXCEPT !.uiCurrentObjectTXT = name],
                    name)
        /\ RevisionCapped
        /\ UNCHANGED batch

\* uiClearSelectedObjectBTN.clicked
ClearSelectedObjectClicked ==
    /\ ui' = ClearSelectedObject(Begin(ui, "clearSelectedObject", ""))
    /\ RevisionCapped
    /\ UNCHANGED batch

\* dispatch.beforeNew / dispatch.beforeOpen
NewScene ==
    /\ ui' = NewSceneHandler(Begin(ui, "newScene", ""))
    /\ RevisionCapped
    /\ UNCHANGED batch

\* the user picks another entry of uiCurrentSystemCBOX
SystemChosen ==
    \E idx \in 0..(Len(ui.cboxItems) - 1) :
        /\ idx /= ui.cboxIndex
        /\ ui' = CboxSetCurrentIndex(Begin(ui, "currentSystemChanged", idx), idx, FALSE)
        /\ RevisionCapped
        /\ UNCHANGED batch

\* uiImportACT.triggered
ImportSystemFromFile ==
    \E ext \in {"", "smpx", "json", "txt"}, name \in SysNames, mesh \in Objects :
        /\ ui' = ImportSystemFromFileHandler(Begin(ui, "importSystemFromFile",
                                                  [ext |-> ext, name |-> name, mesh |-> mesh]),
                                            ext, name, mesh)
        /\ RevisionCapped
        /\ UNCHANGED batch

\* dispatch.undo / dispatch.redo: the host moved to revision rev
HandleUndo ==
    \E rev \in Revisions :
        /\ ui' = HandleUndoHandler([Begin(ui, "handleUndo", rev) EXCEPT !.dccRev = rev])
        /\ RevisionCapped
        /\ UNCHANGED batch

\* uiLegacyJsonACT.toggled
LegacyToggled ==
    /\ ui' = SetSimplexLegacy(Begin(ui, "setSimplexLegacy", ""))
    /\ RevisionCapped
    /\ UNCHANGED batch

\* the user edits the loaded system
Edit ==
    /\ IsLoaded(ui)
    /\ ui.dccRev < MaxRev
    /\ ui' = StackableEdit(Begin(ui, "edit", ""))
    /\ RevisionCapped
    /\ UNCHANGED batch

\* the user changes the slider tree's selection; mods: Ctrl or Shift is held
SliderSelect ==
    \E sel \in SUBSET SliderItems, mods \in BOOLEAN :
        /\ ui.sliderModel.kind = "filter"
        /\ sel /= ui.sliderSel
        /\ ui' = SliderSelectionChanged(
                       [Begin(ui, IF mods THEN "sliderSelectMod" ELSE "sliderSelect", sel)
                            EXCEPT !.sliderSel = sel], mods)
        /\ RevisionCapped
        /\ UNCHANGED batch

\* the user changes the combo tree's selection; mods: Ctrl or Shift is held
ComboSelect ==
    \E sel \in SUBSET ComboItems, mods \in BOOLEAN :
        /\ ui.comboModel.kind = "filter"
        /\ sel /= ui.comboSel
        /\ ui' = ComboSelectionChanged(
                       [Begin(ui, IF mods THEN "comboSelectMod" ELSE "comboSelect", sel)
                            EXCEPT !.comboSel = sel], mods)
        /\ RevisionCapped
        /\ UNCHANGED batch

\* uiComboDependAllCHK.stateChanged
ToggleAll ==
    /\ ui' = SetComboRequirements(
                [Begin(ui, "setAllComboRequirement", "") EXCEPT !.chkAll = ~@], "All")
    /\ RevisionCapped
    /\ UNCHANGED batch

\* uiComboDependAnyCHK.stateChanged
ToggleAny ==
    /\ ui' = SetComboRequirements(
                [Begin(ui, "setAnyComboRequirement", "") EXCEPT !.chkAny = ~@], "Any")
    /\ RevisionCapped
    /\ UNCHANGED batch

\* uiComboDependOnlyCHK.stateChanged
ToggleOnly ==
    /\ ui' = SetComboRequirements(
                [Begin(ui, "setOnlyComboRequirement", "") EXCEPT !.chkOnly = ~@], "Only")
    /\ RevisionCapped
    /\ UNCHANGED batch

\* uiComboDependLockCHK.stateChanged
ToggleLock ==
    /\ ui' = SetLockComboRequirement(
                [Begin(ui, "setLockComboRequirement", "") EXCEPT !.chkLock = ~@])
    /\ RevisionCapped
    /\ UNCHANGED batch

\* the slider tree's Isolate Selected entry, on a selection of a loaded system
SliderIsolate ==
    /\ ui.sliderModel.kind = "filter"
    /\ ui.sliderSel /= {}
    /\ ui' = SliderIsolateSelected(Begin(ui, "sliderIsolateSelected", ""))
    /\ RevisionCapped
    /\ UNCHANGED batch

\* uiSliderExitIsolateBTN.clicked
SliderExitIsolate ==
    /\ ui.sliderModel.kind = "filter"
    /\ ui' = SliderTreeExitIsolate(Begin(ui, "sliderTreeExitIsolate", ""))
    /\ RevisionCapped
    /\ UNCHANGED batch

\* the combo tree's Isolate Selected entry, on a selection of a loaded system
ComboIsolate ==
    /\ ui.comboModel.kind = "filter"
    /\ ui.comboSel /= {}
    /\ ui' = ComboIsolateSelected(Begin(ui, "comboIsolateSelected", ""))
    /\ RevisionCapped
    /\ UNCHANGED batch

\* uiComboExitIsolateBTN.clicked
ComboExitIsolate ==
    /\ ui.comboModel.kind = "filter"
    /\ ui' = ComboTreeExitIsolate(Begin(ui, "comboTreeExitIsolate", ""))
    /\ RevisionCapped
    /\ UNCHANGED batch

\* uiNewGroupBTN.clicked (slider tree)
NewSliderGroup ==
    \E newName \in EnteredNames, good \in BOOLEAN :
        /\ ui' = NewSliderGroupHandler(
                    Begin(ui, "newSliderGroup", [name |-> newName, good |-> good]),
                    newName, good)
        /\ RevisionCapped
        /\ UNCHANGED batch

\* uiNewGroupBTN.clicked (combo tree)
NewComboGroup ==
    \E newName \in EnteredNames, good \in BOOLEAN :
        /\ ui' = NewComboGroupHandler(
                    Begin(ui, "newComboGroup", [name |-> newName, good |-> good]),
                    newName, good)
        /\ RevisionCapped
        /\ UNCHANGED batch

\* uiNewSliderBTN.clicked
NewSlider ==
    \E newName \in EnteredNames, good \in BOOLEAN :
        /\ ui' = NewSliderHandler(
                    Begin(ui, "newSlider", [name |-> newName, good |-> good]),
                    newName, good)
        /\ RevisionCapped
        /\ UNCHANGED batch

RECURSIVE SceneSystems(_, _)
\* the simplex operators on the first n meshes of the scene
SceneSystems(d, n) == IF n = 0 THEN 0 ELSE Len(d.sceneOps[n]) + SceneSystems(d, n - 1)

\* uiNewSystemBTN.clicked, while the scene has room for another system
NewSystem ==
    \E newName \in EnteredNames, good \in BOOLEAN :
        /\ SceneSystems(ui, NumObjects) < MaxSystems
        /\ ui' = NewSystemHandler(
                    Begin(ui, "newSystem", [name |-> newName, good |-> good]),
                    newName, good)
        /\ RevisionCapped
        /\ UNCHANGED batch

\* uiRenameSystemBTN.clicked
RenameSystem ==
    \E name \in EnteredNames, good \in BOOLEAN :
        /\ ui' = RenameSystemHandler(
                    Begin(ui, "renameSystem", [name |-> name, good |-> good]),
                    name, good)
        /\ RevisionCapped
        /\ UNCHANGED batch

\* dragFilter.dragPressed of either tree: the mouse button goes down
DragStart ==
    /\ ~ui.pressed
    /\ Len(ui.undoOpens) < MaxChunks
    /\ ui' = DragStartHandler([Begin(ui, "dragStart", "") EXCEPT !.pressed = TRUE])
    /\ RevisionCapped
    /\ UNCHANGED batch

\* dragFilter.dragReleased of either tree: the mouse button goes up
DragStop ==
    /\ ui.pressed
    /\ ui' = DragStopHandler([Begin(ui, "dragStop", "") EXCEPT !.pressed = FALSE])
    /\ RevisionCapped
    /\ UNCHANGED batch

\* the user drags a slider of the loaded system to a value
SliderWeightSet ==
    \E s \in Sliders, v \in WeightValues :
        /\ IsLoaded(ui)
        /\ ui.weights[s] /= v
        /\ ui' = SetSlidersWeights(Begin(ui, "setSliderWeight", s),
                                   <<[slider |-> s, value |-> v]>>)
        /\ RevisionCapped
        /\ UNCHANGED batch

\* uiSetSliderValsBTN.clicked; combos: the selected combos in the order
\* getSelectedItems lists them
SetSliderVals ==
    \E combos \in Orders(ui.comboSel \cap ComboItems) :
        /\ ui' = SetSliderValsHandler(Begin(ui, "setSliderVals", combos), combos)
        /\ RevisionCapped
        /\ UNCHANGED batch

\* the Export Template menu entry
ExportSystemTemplate ==
    \E path \in ExportPaths :
        /\ ui' = ExportSystemTemplateHandler(Begin(ui, "exportSystemTemplate", path), path)
        /\ RevisionCapped
        /\ UNCHANGED batch

----------------------------------------------------------------------------
(* Extraction/connection: the progress-tracked batch operations *)

NumPairs == 4       \* progressive pairs of the loaded system
MaxIndexes == 3     \* ProgPair indexes a selection coerces to
MaxSelected == 2    \* objects selected in the scene

PairIds == 1..NumPairs

\* pair.shape.name: a letter (by alphabet position) followed by decimal digits
\* and by extracts copies of "_Extract"
\*   pair 1 "a10", pair 2 "a2", pair 3 "a0" (the rest shape), pair 4 "a2_Extract"
ShapeName(p) ==
    CASE p = 1 -> [letter |-> 1, digits |-> <<1, 0>>, extracts |-> 0]
      [] p = 2 -> [letter |-> 1, digits |-> <<2>>, extracts |-> 0]
      [] p = 3 -> [letter |-> 1, digits |-> <<0>>, extracts |-> 0]
      [] p = 4 -> [letter |-> 1, digits |-> <<2>>, extracts |-> 1]
      [] OTHER -> [letter |-> 2, digits |-> <<p % 10>>, extracts |-> 0]

\* pair.shape.isRest
IsRest(p) == p = 3

RECURSIVE DigitsValue(_)
\* int(digits)
DigitsValue(ds) ==
    IF ds = <<>> THEN 0 ELSE 10 * DigitsValue(SubSeq(ds, 1, Len(ds) - 1)) + ds[Len(ds)]

\* utils.naturalSortKey: text chunks stay text, digit chunks become integers;
\* the text after the digits is empty or a run of "_Extract"
NaturalSortKey(name) == <<name.letter, DigitsValue(name.digits), name.extracts>>

\* Python's < on two keys of naturalSortKey: chunk by chunk
KeyLess(a, b) ==
    \/ a[1] < b[1]
    \/ a[1] = b[1] /\ a[2] < b[2]
    \/ a[1] = b[1] /\ a[2] = b[2] /\ a[3] < b[3]

RECURSIVE MakeUnique(_)
\* utils.makeUnique: drop repeats, keep the first occurrence's place
MakeUnique(seq) ==
    IF seq = <<>> THEN <<>>
    ELSE LET init == MakeUnique(SubSeq(seq, 1, Len(seq) - 1))
             last == seq[Len(seq)]
         IN  IF \E i \in 1..Len(init) : init[i] = last THEN init ELSE Append(init, last)

\* [i for i in pairs if not i.shape.isRest]
NonRest(seq) == SelectSeq(seq, LAMBDA p : ~IsRest(p))

\* one insertion of list.sort: x goes after every element not greater than it
Insert(sorted, x) ==
    LET k == Cardinality({i \in 1..Len(sorted) :
                              ~KeyLess(NaturalSortKey(ShapeName(x)),
                                       NaturalSortKey(ShapeName(sorted[i])))})
    IN  SubSeq(sorted, 1, k) \o <<x>> \o SubSeq(sorted, k + 1, Len(sorted))

RECURSIVE SortPairs(_)
\* pairs.sort(key=lambda x: naturalSortKey(x.shape.name)): a stable sort
SortPairs(seq) ==
    IF seq = <<>> THEN <<>>
    ELSE Insert(SortPairs(SubSeq(seq, 1, Len(seq) - 1)), seq[Len(seq)])

\* shapeIndexExtract, lines 738-741: the work list of an extraction
ExtractPairs(coerced) == SortPairs(MakeUnique(NonRest(coerced)))

\* shapeConnectIndexes / shapeMatchIndexes, lines 778-780 and 821-823
ConnectPairs(coerced) == MakeUnique(NonRest(coerced))

\* a name that no shape has (and none of its prefixes has)
OtherName == [letter |-> 26, digits |-> <<>>, extracts |-> 0]

\* name + "_Extract"
AddExtract(name) == [name EXCEPT !.extracts = @ + 1]

\* the names of the objects of the scene: those of the shapes, with and without
\* further "_Extract" suffixes, and others
SceneNames ==
    LET plain == {ShapeName(p) : p \in PairIds} \cup {OtherName}
    IN  plain \cup {AddExtract(n) : n \in plain}
              \cup {AddExtract(AddExtract(n)) : n \in plain}

\* name.endswith("_Extract")
EndsWithExtract(name) == name.extracts > 0

\* name.rsplit("_Extract", 1)[0] of a name that ends with "_Extract"
StripExtract(name) == [name EXCEPT !.extracts = @ - 1]

\* the keys of selDict built from every selected object, suffix or not
SelDictKeysAnyName(sel) ==
    {IF EndsWithExtract(o) THEN StripExtract(o) ELSE o : o \in sel}

\* shapeConnectScene, lines 677-683: the keys of selDict
SelDictKeys(sel) == {StripExtract(o) : o \in {x \in sel : EndsWithExtract(x)}}

\* shapeConnectScene, lines 685-693: the pairs whose shape name is a key of both
\* selDict and pairDict
CommonPairs(sel) == {p \in PairIds : ShapeName(p) \in SelDictKeys(sel)}

\* shapeConnectScene, line 696: the pairs of the common names, in the set's
\* iteration order
ScenePairs(input) == input.order

\* the work list of each batch operation
WorkList(op, input) ==
    CASE op = "shapeIndexExtract" -> ExtractPairs(input)
      [] op = "shapeConnectScene" -> ScenePairs(input)
      [] OTHER -> ConnectPairs(input)

\* QProgressDialog(label, "Cancel", 0, 100, self): the bar starts reset, so
\* value() is minimum - 1
QProgressDialog == [value |-> -1, minimum |-> 0, maximum |-> 100, wasCanceled |-> FALSE]

\* QProgressDialog.setMaximum
SetMaximum(pBar, n) ==
    LET ranged == [pBar EXCEPT !.maximum = IF n < pBar.minimum THEN pBar.minimum ELSE n]
    IN  IF ranged.value < ranged.minimum - 1 \/ ranged.value > ranged.maximum
        THEN [ranged EXCEPT !.value = ranged.minimum - 1]
        ELSE ranged

\* QProgressDialog.setValue: a value outside the range is ignored; reaching the
\* maximum resets the dialog (autoReset)
SetValue(pBar, v) ==
    IF (v > pBar.maximum \/ v < pBar.minimum) /\ (pBar.maximum /= 0 \/ pBar.minimum /= 0)
    THEN pBar
    ELSE IF v = pBar.maximum
    THEN [pBar EXCEPT !.value = pBar.minimum - 1, !.wasCanceled = FALSE]
    ELSE [pBar EXCEPT !.value = v]

\* the offset shapeIndexExtract passes for the k-th pair (k from 1)
ExtractOffset(k) == 10 + 5 * (k - 1)

BatchIdle ==
    [pc |-> "idle", op |-> "", input |-> <<>>, work |-> <<>>, calls |-> <<>>,
     pBar |-> QProgressDialog, warned |-> ""]

\* lines 743-745 (and alike): the handler up to its loop
BatchBegin(op, input) ==
    LET work == WorkList(op, input)
    IN  [pc |-> IF work = <<>> THEN "closed" ELSE "loop",
         op |-> op, input |-> input, work |-> work, calls |-> <<>>,
         pBar |-> SetMaximum(QProgressDialog, Len(work)), warned |-> ""]

\* one turn of the loop, lines 749-759 (and alike): process the next pair, step
\* the progress, let the user cancel; cancel: Cancel was pressed in processEvents
BatchTurn(b, cancel) ==
    LET k == Len(b.calls) + 1
        call == [pair |-> b.work[k],
                 offset |-> IF b.op = "shapeIndexExtract" THEN ExtractOffset(k) ELSE 0]
        stepped == SetValue(b.pBar, b.pBar.value + 1)
        pBar == [stepped EXCEPT !.wasCanceled = @ \/ cancel]
    IN  [b EXCEPT !.calls = Append(@, call),
                  !.pBar = pBar,
                  !.pc = IF pBar.wasCanceled THEN "returned"
                         ELSE IF k = Len(b.work) THEN "closed"
                         ELSE "loop"]

BatchOps == {"shapeIndexExtract", "shapeConnectIndexes", "shapeMatchIndexes",
             "shapeConnectScene"}

\* every list of at most MaxIndexes pairs
PairLists == UNION {[1..n -> PairIds] : n \in 0..MaxIndexes}

\* DCC.getSelectedObjects(): at most MaxSelected objects of the scene, by name
Selections == {S \in SUBSET SceneNames : Cardinality(S) <= MaxSelected}

\* the inputs a batch operation can get: any ProgPair indexes for the index
\* operations; for shapeConnectScene the selected objects and the order in
\* which the set of common names happens to be iterated
BatchInputs(op) ==
    IF op = "shapeConnectScene"
    THEN UNION {{[selected |-> S, order |-> q] : q \in Orders(CommonPairs(S))} :
                    S \in Selections}
    ELSE PairLists

\* shapeConnectScene, lines 674-675: without a system the handler returns at once
BatchReturned(op, input) ==
    [pc |-> "returned", op |-> op, input |-> input, work |-> <<>>, calls |-> <<>>,
     pBar |-> QProgressDialog, warned |-> ""]

\* shapeExtract / shapeConnect / shapeMatch / shapeConnectScene is started
BatchStart ==
    /\ batch.pc = "idle"
    /\ \E op \in BatchOps : \E input \in BatchInputs(op) :
           batch' = IF op = "shapeConnectScene" /\ ~IsLoaded(ui)
                    THEN BatchReturned(op, input)
                    ELSE BatchBegin(op, input)
    /\ UNCHANGED ui

\* the running operation processes its next pair
BatchStep ==
    /\ batch.pc = "loop"
    /\ batch.op \in BatchOps
    /\ \E cancel \in BOOLEAN : batch' = BatchTurn(batch, cancel)
    /\ UNCHANGED ui

----------------------------------------------------------------------------
(* importObjFolder: loading the shapes of a system from a folder of .obj files *)

MaxFiles == 3       \* files in the folder

\* master.prog.pairs: the shapes (named by their pair) of a master's
\* progression; every progression holds the rest shape
ProgShapes(master) ==
    CASE master = "s1" -> {1, 3}
      [] master = "c1" -> {2, 3}
      [] master = "c2" -> {4, 3}
      [] OTHER -> {3} \cup {p \in PairIds : p > 4}

\* the files a folder can hold, by base name and extension
FolderFiles ==
    {[base |-> n, ext |-> "obj"] : n \in SceneNames}
        \cup {[base |-> ShapeName(1), ext |-> "txt"]}

\* the shapes named name
ShapesNamed(name) == {p \in PairIds : ShapeName(p) = name}

\* lines 1083-1093: the shape a file's base name selects: the shape of that
\* name, and only when there is none the shape of the name without "_Extract"
MatchedShapes(base) ==
    IF ShapesNamed(base) /= {} THEN ShapesNamed(base)
    ELSE IF EndsWithExtract(base) THEN ShapesNamed(StripExtract(base))
    ELSE {}

\* lines 1074 and 1081-1093: the keys of inPairs
InPairs(files) ==
    UNION {MatchedShapes(f.base) : f \in {x \in files : x.ext = "obj"}}

\* lines 1095-1105: the keys of sliderMasters and of comboMasters
MasterKeys(files, masters) ==
    {p \in InPairs(files) : \E i \in 1..Len(masters) : p \in ProgShapes(masters[i])}

\* lines 1097-1105: comboMasters[name], the last combo whose progression holds
\* the shape
ComboMaster(p) ==
    LET holders == {i \in 1..Len(ComboList) : p \in ProgShapes(ComboList[i])}
    IN  ComboList[CHOOSE i \in holders : \A j \in holders : j <= i]

\* line 1109: len(v.pairs) of the shape's combo
ComboDepth(p) == Len(ComboPairs(ComboMaster(p)))

\* a sequence of shapes as work items of one kind of owner
AsItems(q, owner) == [i \in 1..Len(q) |-> [pair |-> q[i], owner |-> owner]]

\* line 1115: sliderMasters.iteritems(), in the dictionary's order
SliderOrders(files) ==
    {AsItems(q, "slider") : q \in Orders(MasterKeys(files, SliderList))}

\* the combo shapes in the dictionary's order, whatever their depth
ComboOrdersAnyDepth(files) ==
    {AsItems(q, "combo") : q \in Orders(MasterKeys(files, ComboList))}

\* lines 1107-1110 and 1128-1129: the combo shapes depth by depth in sorted
\* order of the depths, each depth in its dictionary's order
ComboOrders(files) ==
    {AsItems(q, "combo") :
        q \in {o \in Orders(MasterKeys(files, ComboList)) :
                  \A i, j \in 1..Len(o) : i < j => ComboDepth(o[i]) <= ComboDepth(o[j])}}

\* the folders: missing ones, and the sets of at most MaxFiles files, each with
\* an order in which the dictionaries happen to be iterated
ImportObjInputs ==
    {[isdir |-> FALSE, files |-> {}, order |-> <<>>]} \cup
    UNION {{[isdir |-> TRUE, files |-> F, order |-> s \o c] :
                s \in SliderOrders(F), c \in ComboOrders(F)} :
              F \in {X \in SUBSET FolderFiles : Cardinality(X) <= MaxFiles}}

\* importObjFolder left without a progress dialog
ImportObjLeft(input, pc, message) ==
    [pc |-> pc, op |-> "importObjFolder", input |-> input, work |-> <<>>,
     calls |-> <<>>, pBar |-> QProgressDialog, warned |-> message]

\* lines 1069-1113: the handler up to its loops; loaded: self.simplex is a system
ImportObjBegin(input, loaded) ==
    IF ~input.isdir
    THEN ImportObjLeft(input, "returned", "Folder does not exist")
    ELSE IF {f \in input.files : f.ext = "obj"} = {}
    THEN ImportObjLeft(input, "returned", "Folder does not contain any .obj files")
    \* None has no shapes
    ELSE IF ~loaded THEN ImportObjLeft(input, "raised", "")
    ELSE [pc |-> IF input.order = <<>> THEN "closed" ELSE "loop",
          op |-> "importObjFolder", input |-> input, work |-> input.order,
          calls |-> <<>>,
          pBar |-> [QProgressDialog EXCEPT !.maximum = Len(input.order)],
          warned |-> ""]

\* one turn of either loop, lines 1116-1126 and 1130-1139: step the progress,
\* let the user cancel, and unless cancelled import and connect the next shape
ImportObjTurn(b, cancel) ==
    LET k == Len(b.calls) + 1
        stepped == SetValue(b.pBar, b.pBar.value + 1)
        pBar == [stepped EXCEPT !.wasCanceled = @ \/ cancel]
    IN  IF pBar.wasCanceled
        THEN [b EXCEPT !.pBar = pBar, !.pc = "returned"]
        ELSE [b EXCEPT !.calls = Append(@, b.work[k]),
                       !.pBar = pBar,
                       !.pc = IF k = Len(b.work) THEN "closed" ELSE "loop"]

\* importObjFolder is started on a folder
ImportObjStart ==
    /\ batch.pc = "idle"
    /\ \E input \in ImportObjInputs : batch' = ImportObjBegin(input, IsLoaded(ui))
    /\ UNCHANGED ui

\* importObjFolder runs the next turn of its loops
ImportObjStep ==
    /\ batch.pc = "loop"
    /\ batch.op = "importObjFolder"
    /\ \E cancel \in BOOLEAN : batch' = ImportObjTurn(batch, cancel)
    /\ UNCHANGED ui

----------------------------------------------------------------------------
(* Specifications *)

Init ==
    /\ ui = SimplexDialogInit
    /\ batch = BatchIdle

\* every signal the dialog handles
Next ==
    \/ GetSelectedObject
    \/ CurrentObjectChanged
    \/ ClearSelectedObjectClicked
    \/ NewScene
    \/ SystemChosen
    \/ ImportSystemFromFile
    \/ HandleUndo
    \/ LegacyToggled
    \/ Edit
    \/ SliderSelect
    \/ ComboSelect
    \/ ToggleAll
    \/ ToggleAny
    \/ ToggleOnly
    \/ ToggleLock
    \/ SliderIsolate
    \/ SliderExitIsolate
    \/ ComboIsolate
    \/ ComboExitIsolate
    \/ NewSliderGroup
    \/ NewComboGroup
    \/ NewSlider
    \/ NewSystem
    \/ RenameSystem
    \/ DragStart
    \/ DragStop
    \/ SliderWeightSet
    \/ SetSliderVals
    \/ ExportSystemTemplate
    \/ BatchStart
    \/ BatchStep
    \/ ImportObjStart
    \/ ImportObjStep

Spec == Init /\ [][Next]_vars

\* objects and systems: loading, switching, importing and clearing
NextSystem ==
    \/ GetSelectedObject
    \/ CurrentObjectChanged
    \/ ClearSelectedObjectClicked
    \/ NewScene
    \/ SystemChosen
    \/ ImportSystemFromFile
    \/ HandleUndo
    \/ LegacyToggled

SpecSystem == Init /\ [][NextSystem]_vars

\* edits, undo and redo on the systems of the scene
NextUndo ==
    \/ GetSelectedObject
    \/ ClearSelectedObjectClicked
    \/ NewScene
    \/ SystemChosen
    \/ HandleUndo
    \/ LegacyToggled
    \/ Edit

SpecUndo == Init /\ [][NextUndo]_vars

\* selections and the dependency checkboxes, across system changes
NextSelection ==
    \/ GetSelectedObject
    \/ ClearSelectedObjectClicked
    \/ SystemChosen
    \/ HandleUndo
    \/ SliderSelect
    \/ ComboSelect
    \/ ToggleAll
    \/ ToggleAny
    \/ ToggleOnly
    \/ ToggleLock

SpecSelection == Init /\ [][NextSelection]_vars

\* selections and isolate mode, across system changes
NextIsolate ==
    \/ GetSelectedObject
    \/ ClearSelectedObjectClicked
    \/ SystemChosen
    \/ HandleUndo
    \/ SliderSelect
    \/ ComboSelect
    \/ SliderIsolate
    \/ SliderExitIsolate
    \/ ComboIsolate
    \/ ComboExitIsolate

SpecIsolate == Init /\ [][NextIsolate]_vars

\* the batch operations alone
NextBatch ==
    \/ BatchStart
    \/ BatchStep

SpecBatch == Init /\ [][NextBatch]_vars

\* the input dialogs that ask for a name
NextNames ==
    \/ GetSelectedObject
    \/ ClearSelectedObjectClicked
    \/ SystemChosen
    \/ NewSliderGroup
    \/ NewComboGroup
    \/ NewSlider
    \/ NewSystem
    \/ RenameSystem

SpecNames == Init /\ [][NextNames]_vars

\* the ways into setSystem on the systems of the scene: loading and clearing
\* an object, choosing a system, creating one, undoing
NextWiring ==
    \/ GetSelectedObject
    \/ ClearSelectedObjectClicked
    \/ SystemChosen
    \/ NewSystem
    \/ HandleUndo
    \/ Edit

SpecWiring == Init /\ [][NextWiring]_vars

\* drags, interleaved with loading, replacing and unloading the system
NextDrag ==
    \/ GetSelectedObject
    \/ NewScene
    \/ SystemChosen
    \/ DragStart
    \/ DragStop

SpecDrag == Init /\ [][NextDrag]_vars

\* the batch operations, with or without a system loaded
NextScene ==
    \/ GetSelectedObject
    \/ BatchStart
    \/ BatchStep

SpecScene == Init /\ [][NextScene]_vars

\* loading an object and importing a folder of .obj files
NextObjFolder ==
    \/ GetSelectedObject
    \/ ImportObjStart
    \/ ImportObjStep

SpecObjFolder == Init /\ [][NextObjFolder]_vars

\* slider weights: loading an object, selecting combos, dragging sliders and
\* setting the sliders from the selected combos
NextWeights ==
    \/ GetSelectedObject
    \/ ComboSelect
    \/ SliderWeightSet
    \/ SetSliderVals

SpecWeights == Init /\ [][NextWeights]_vars

\* objects and systems loaded, imported and cleared, and the template exported
NextExport ==
    \/ GetSelectedObject
    \/ ClearSelectedObjectClicked
    \/ NewScene
    \/ SystemChosen
    \/ ImportSystemFromFile
    \/ ExportSystemTemplate

SpecExport == Init /\ [][NextExport]_vars

----------------------------------------------------------------------------
(* Selection synchronization *)

\* C1: right after a slider-tree selection change made with neither Ctrl nor
\* Shift held, the combo tree's selection is empty and the slider tree holds
\* exactly what the user selected; symmetrically for an unmodified combo-tree
\* selection change.  So after unmodified changes at most one tree has a
\* selection, and the clearing never comes back to clear the originating tree.
C1_SelectionUnified ==
    /\ ui.lastOp = "sliderSelect" => ui.comboSel = {} /\ ui.sliderSel = ui.input
    /\ ui.lastOp = "comboSelect" => ui.sliderSel = {} /\ ui.comboSel = ui.input
    /\ ui.lastOp \in {"sliderSelect", "comboSelect"}
           => ui.sliderSel = {} \/ ui.comboSel = {}

\* C1: an unmodified slider selection of two items has just been made
C1_Witness ==
    /\ ui.lastOp = "sliderSelect"
    /\ ui.sliderSel = {"s1", "g1"}
    /\ ui.comboSel = {}

SliderSelectOps == {"sliderSelect", "sliderSelectMod"}
ComboSelectOps == {"comboSelect", "comboSelectMod"}

\* C2 as claimed: with a system loaded and Lock unchecked, after every selection
\* event (slider tree or combo tree) the combo model's requires is the set of
\* Slider items selected in the slider tree
C2_RequiresAfterAnySelection ==
    (/\ IsLoaded(ui)
     /\ ~ui.chkLock
     /\ ui.lastOp \in SliderSelectOps \cup ComboSelectOps)
        => ui.comboModel.requires = SelectedSliders(ui)

\* C2 as amended: with Lock unchecked, right after a slider-tree selection event
\* requires is the set of Slider items selected in the slider tree; a combo-tree
\* selection event leaves requires as it was, also when it empties the slider
\* tree's selection
C2_RequiresFollowSliderEvents ==
    [][/\ (ui'.lastOp \in SliderSelectOps /\ ~ui'.chkLock)
              => ui'.comboModel.requires = SelectedSliders(ui')
       /\ ui'.lastOp \in ComboSelectOps
              => ui'.comboModel.requires = ui.comboModel.requires]_vars

\* C2: an unmodified combo selection has emptied the slider selection and the
\* requirements still name a slider
C2_Witness ==
    /\ ui.lastOp = "comboSelect"
    /\ ~ui.chkLock
    /\ ui.sliderSel = {}
    /\ ui.comboModel.requires = {"s1"}

\* C3: at most one of the All / Any / Only checkboxes is checked, and a combo
\* filter model's three flags equal the three checkboxes
C3_RequirementsExclusive ==
    /\ ~(ui.chkAll /\ ui.chkAny)
    /\ ~(ui.chkAll /\ ui.chkOnly)
    /\ ~(ui.chkAny /\ ui.chkOnly)
    /\ ui.comboModel.kind = "filter" =>
           /\ ui.comboModel.filterRequiresAll = ui.chkAll
           /\ ui.comboModel.filterRequiresAny = ui.chkAny
           /\ ui.comboModel.filterRequiresOnly = ui.chkOnly

\* C3: a system was just loaded while Only was checked, and its new combo model
\* filters by Only
C3_Witness ==
    /\ ui.lastOp = "currentSystemChanged"
    /\ ui.comboModel.kind = "filter"
    /\ ui.chkOnly
    /\ ui.comboModel.filterRequiresOnly

\* C4: while Lock is checked a slider-tree selection change leaves the combo
\* filter model's requires as it was; the handler of unchecking Lock sets
\* requires to the sliders selected at that moment
C4_LockFreezesRequires ==
    [][/\ (ui.chkLock /\ ui'.lastOp \in SliderSelectOps)
              => ui'.comboModel.requires = ui.comboModel.requires
       /\ (/\ ui'.lastOp = "setLockComboRequirement"
           /\ ~ui'.chkLock
           /\ ui'.comboModel.kind = "filter")
              => ui'.comboModel.requires = SelectedSliders(ui')]_vars

\* C4: under Lock the selection has moved away from the frozen requirements
C4_Witness ==
    /\ ui.chkLock
    /\ ui.lastOp = "sliderSelect"
    /\ ui.comboModel.requires = {"s1"}
    /\ SelectedSliders(ui) = {"s2"}

----------------------------------------------------------------------------
(* Isolate mode *)

\* C5 as claimed: each tree's Exit-Isolate button is visible exactly when that
\* tree's model is in isolate mode
C5_IsolateButtonsConsistent ==
    /\ ui.sliderExitIsolateVisible <=> IsSliderIsolate(ui)
    /\ ui.comboExitIsolateVisible <=> IsComboIsolate(ui)

----------------------------------------------------------------------------
(* Progress-tracked batch operations *)

\* the pairs a finished or running operation has processed, in order
Processed == [k \in 1..Len(batch.calls) |-> batch.calls[k].pair]

\* how often pair p was processed
TimesProcessed(p) == Cardinality({k \in 1..Len(batch.calls) : batch.calls[k].pair = p})

\* the calls of a finished extraction: one per distinct non-rest pair of the
\* indexes, in natural order of the shape names, with offsets 10, 15, 20, ...
ExtractCallsAsClaimed ==
    /\ \A p \in PairIds :
           TimesProcessed(p) =
               IF ~IsRest(p) /\ \E i \in 1..Len(batch.input) : batch.input[i] = p
               THEN 1 ELSE 0
    /\ \A i, j \in 1..Len(batch.calls) :
           i < j => ~KeyLess(NaturalSortKey(ShapeName(batch.calls[j].pair)),
                             NaturalSortKey(ShapeName(batch.calls[i].pair)))
    /\ \A k \in 1..Len(batch.calls) : batch.calls[k].offset = 10 + 5 * (k - 1)

\* C6 as claimed: an extraction that was not cancelled has called extractShape
\* once per distinct non-rest pair of the indexes and for no other pair, in
\* natural order, with offsets 10, 15, 20, ..., and its progress value is the
\* number of pairs extracted
C6_ExtractAllAndCount ==
    (batch.op = "shapeIndexExtract" /\ batch.pc = "closed")
        => /\ ExtractCallsAsClaimed
           /\ batch.pBar.value = Len(batch.calls)

\* C6, the part of the claim the code keeps: the calls of an extraction that
\* was not cancelled, and a progress value one short of their number
C6_ExtractAllOneShort ==
    (batch.op = "shapeIndexExtract" /\ batch.pc = "closed")
        => /\ ExtractCallsAsClaimed
           /\ batch.pBar.value = Len(batch.calls) - 1

\* C7 as claimed: in each batch operation the pairs processed are a prefix of
\* the work list, nothing is processed once the dialog reports cancelled, and
\* once a pair was processed the progress value is the number of pairs processed
C7_CancelStopsAndCount ==
    batch.pc /= "idle"
        => /\ Len(batch.calls) <= Len(batch.work)
           /\ \A k \in 1..Len(batch.calls) : Processed[k] = batch.work[k]
           /\ batch.pBar.wasCanceled => batch.pc = "returned"
           /\ batch.calls /= <<>> => batch.pBar.value = Len(batch.calls)

\* C7, the part of the claim the code keeps: prefix and stop, and a progress
\* value one short of the number of pairs processed
C7_CancelStopsOneShort ==
    batch.pc /= "idle"
        => /\ Len(batch.calls) <= Len(batch.work)
           /\ \A k \in 1..Len(batch.calls) : Processed[k] = batch.work[k]
           /\ batch.pBar.wasCanceled => batch.pc = "returned"
           /\ batch.calls /= <<>> => batch.pBar.value = Len(batch.calls) - 1

----------------------------------------------------------------------------
(* Import, undo and reset *)

\* C8 as claimed: after an import from any path the file dialog returned, the
\* system named in the file is loaded, its mesh is the current object and the
\* system box's current entry shows its name
C8_ImportLoadsSystem ==
    (ui.lastOp = "importSystemFromFile" /\ ui.input.ext /= "")
        => /\ IsLoaded(ui)
           /\ ui.simplex.name = ui.input.name
           /\ ui.currentObject = ui.simplex.mesh
           /\ CurrentText(ui) = ui.simplex.name

\* C9: handleUndo with a system loaded reads the host's revision; when the
\* stack holds data for it, that data is the loaded system afterwards and the
\* trees' expansion was restored; when it holds none, the loaded system, both
\* tree models, the selections and the slot connections are as before
C9_UndoLoadsRevision ==
    [][(ui'.lastOp = "handleUndo" /\ IsLoaded(ui))
           => /\ ui'.readRev = ui'.input
              /\ ui.stack[ui'.readRev] /= 0
                     => /\ ui'.simplex.id = ui.stack[ui'.readRev]
                        /\ ui'.expanded
              /\ ui.stack[ui'.readRev] = 0
                     => /\ ui'.simplex = ui.simplex
                        /\ ui'.sliderModel = ui.sliderModel
                        /\ ui'.comboModel = ui.comboModel
                        /\ ui'.sliderSel = ui.sliderSel
                        /\ ui'.comboSel = ui.comboSel
                        /\ ui'.conn = ui.conn
                        /\ ~ui'.expanded]_vars

\* C9: an undo has just loaded the data a revision of the stack holds
C9_Witness ==
    /\ ui.lastOp = "handleUndo"
    /\ ui.expanded
    /\ ui.readRev = 1
    /\ ui.simplex.id = ui.stack[1]

\* a tree shows an empty model: a QStandardItemModel(), or none at all
ShowsEmptyModel(model) == model.kind \in {"none", "standard"}

\* C10: right after newScene or clearSelectedObject there is no current
\* object, the object field and the system box are empty, no system is loaded,
\* both trees show empty models, the three button groups are disabled and the
\* Clear-object button is hidden
C10_SceneReset ==
    ui.lastOp \in {"newScene", "clearSelectedObject"}
        => /\ ui.currentObject = NoneObj
           /\ ui.currentObjectName = NoneStr
           /\ ui.uiCurrentObjectTXT = ""
           /\ ui.cboxItems = <<>>
           /\ ~IsLoaded(ui)
           /\ ShowsEmptyModel(ui.sliderModel)
           /\ ShowsEmptyModel(ui.comboModel)
           /\ ~ui.shapeGroupEnabled
           /\ ~ui.comboGroupEnabled
           /\ ~ui.connectionGroupEnabled
           /\ ~ui.clearBtnVisible

\* C10: newScene has just unloaded a system: the trees hold the standard
\* models that setSystem(None) installs
C10_Witness ==
    /\ ui.lastOp = "newScene"
    /\ ui.sliderModel.kind = "standard"
    /\ ui.comboModel.kind = "standard"
    /\ ui.dccRev > 0

----------------------------------------------------------------------------
(* Name validation *)

\* a name of letters and numbers only that does not start with a number
IsValidName(chars) ==
    /\ chars /= <<>>
    /\ chars[1] \in Letters
    /\ \A i \in 1..Len(chars) : chars[i] \in Letters \cup Digits

NameOps == {"newSliderGroup", "newComboGroup", "newSlider", "newSystem", "renameSystem"}

\* the handler that ran last asked for a name and got one: its input dialog was
\* accepted, with a system loaded (or, for newSystem, an object current)
NameEntered ==
    /\ ui.lastOp \in NameOps
    /\ ui.input.good
    /\ IF ui.lastOp = "newSystem" THEN ui.currentObject /= NoneObj ELSE IsLoaded(ui)

\* C11 as claimed: every item and system the dialogs create or rename gets a
\* name of letters and numbers that does not start with a number; for every
\* other entered name a warning is shown and nothing is created or renamed
C11_NamesValidated ==
    NameEntered =>
        IF IsValidName(Spell(ui.input.name))
        THEN ui.warned = ""
        ELSE /\ ui.warned = "name"
             /\ ui.created = {}

\* C11, what the code keeps: a name that does not start with a letter is
\* refused with a warning and nothing is created or renamed
C11_FirstLetterValidated ==
    (NameEntered /\ (Spell(ui.input.name) = <<>> \/ Spell(ui.input.name)[1] \notin Letters))
        => /\ ui.warned = "name"
           /\ ui.created = {}

----------------------------------------------------------------------------
(* Selection-handler wiring *)

\* C12: with a system loaded unifySliderSelection, populateComboRequirements and
\* unifyComboSelection are each connected exactly once to the current selection
\* model of their tree, with none loaded none of them is connected, and no
\* setSystem call has disconnected a slot that was not connected
C12_HandlersWiredOnce ==
    /\ IsLoaded(ui) => /\ ui.conn.unifySliderSelection = 1
                       /\ ui.conn.populateComboRequirements = 1
                       /\ ui.conn.unifyComboSelection = 1
    /\ ~IsLoaded(ui) => ui.conn = NoConnections
    /\ ui.err /= "disconnect"

\* C12: newSystem has just replaced a loaded system by the one it built
C12_Witness ==
    /\ ui.lastOp = "newSystem"
    /\ ui.created /= {}
    /\ IsLoaded(ui)
    /\ ui.dccRev = 2
    /\ ui.conn.unifyComboSelection = 1

----------------------------------------------------------------------------
(* Undo chunks *)

\* C13 as claimed: no undoClose was issued on a DCC without a chunk open on
\* that DCC, and once the mouse button is up again every chunk a dragStart
\* opened has been closed
C13_UndoChunksBalanced ==
    /\ ~ui.closedUnopened
    /\ ~ui.pressed => ui.undoOpens = <<>>

\* C13, what the code keeps: while the loaded system stays the same from
\* dragStart to dragStop, the chunk dragStart opened is closed by dragStop
C13_BalancedWithoutSystemChange ==
    [][(/\ ui.lastOp = "dragStart"
        /\ ui'.lastOp = "dragStop"
        /\ ui.undoOpens = <<ui.simplex.id>>)
           => /\ ui'.undoOpens = <<>>
              /\ ui'.closedUnopened = ui.closedUnopened]_vars

----------------------------------------------------------------------------
(* Revision stack carry-over *)

----------------------------------------------------------------------------
(* The host's revision across an undo *)

\* C15 as claimed: when handleUndo has returned, the host's revision is the one
\* handleUndo read at its start
C15_UndoKeepsRevision ==
    (ui.lastOp = "handleUndo" /\ ui.err = "") => ui.dccRev = ui.readRev

\* C15, what the code does: handleUndo leaves the revision alone only when it
\* sets no system; setting the revision's data advances the revision by one
C15_UndoAdvancesOnLoad ==
    (ui.lastOp = "handleUndo" /\ ui.err = "")
        => ui.dccRev = ui.readRev + (IF ui.setLog = <<>> THEN 0 ELSE 1)

----------------------------------------------------------------------------
(* Connecting scene objects by name *)

\* C16: a shapeConnectScene that was not cancelled has called connectShape
\* exactly once for each pair whose shape name followed by "_Extract" is the
\* name of a selected object, and for no other pair (so objects without the
\* suffix count for nothing); started with no system loaded it has called
\* nothing
C16_SceneMatchedByName ==
    batch.op = "shapeConnectScene" =>
        /\ batch.pc = "closed" =>
               \A p \in PairIds :
                   TimesProcessed(p) =
                       IF AddExtract(ShapeName(p)) \in batch.input.selected
                       THEN 1 ELSE 0
        /\ (batch.pc = "returned" /\ ~batch.pBar.wasCanceled) => batch.calls = <<>>
        /\ \A k \in 1..Len(batch.calls) :
               AddExtract(ShapeName(batch.calls[k].pair)) \in batch.input.selected

\* C16: with the objects "a2_Extract" and "a10" selected, only the shape "a2"
\* was connected: not "a10", whose object lacks the suffix, and not the shape
\* that is itself named "a2_Extract"
C16_Witness ==
    /\ batch.op = "shapeConnectScene"
    /\ batch.pc = "closed"
    /\ batch.input.selected = {AddExtract(ShapeName(2)), ShapeName(1)}
    /\ Len(batch.calls) = 1
    /\ batch.calls[1].pair = 2

\* the import calls of importObjFolder for shape p as a shape of owner
ImportsOf(p, owner) ==
    Cardinality({k \in 1..Len(batch.calls) :
                    batch.calls[k] = [pair |-> p, owner |-> owner]})

\* p is a shape of a progression of some master of the list
OwnedBy(p, masters) == \E i \in 1..Len(masters) : p \in ProgShapes(masters[i])

\* the folder holds a file name.obj, or a file name_Extract.obj
FileForEither(p) ==
    \E f \in batch.input.files :
        f.ext = "obj" /\ (f.base = ShapeName(p) \/ f.base = AddExtract(ShapeName(p)))

\* the folder holds a file name.obj, or a file name_Extract.obj whose base name
\* is not itself the name of a shape
FileForExactFirst(p) ==
    \E f \in batch.input.files :
        /\ f.ext = "obj"
        /\ \/ f.base = ShapeName(p)
           \/ f.base = AddExtract(ShapeName(p)) /\ ShapesNamed(f.base) = {}

\* importObjFolder on a loaded system, matched being the shapes the folder's
\* files match: sliders' shapes first, then combos' shapes by depth;
\* only matched shapes, and once finished each of them once per kind of owner;
\* a cancel noticed in a turn ends the import before that turn's file
ImportsInOrder(matched) ==
    batch.op = "importObjFolder" /\ batch.pc \in {"loop", "closed", "returned"}
        /\ batch.warned = "" =>
        /\ \A i, j \in 1..Len(batch.calls) :
               i < j /\ batch.calls[i].owner = "combo" =>
                   /\ batch.calls[j].owner = "combo"
                   /\ ComboDepth(batch.calls[i].pair) <= ComboDepth(batch.calls[j].pair)
        /\ \A k \in 1..Len(batch.calls) :
               /\ batch.calls[k].pair \in matched
               /\ OwnedBy(batch.calls[k].pair,
                          IF batch.calls[k].owner = "slider" THEN SliderList ELSE ComboList)
        /\ \A p \in PairIds :
               /\ ImportsOf(p, "slider") <= 1
               /\ ImportsOf(p, "combo") <= 1
               /\ batch.pc = "closed" /\ p \in matched /\ OwnedBy(p, SliderList) =>
                      ImportsOf(p, "slider") = 1
               /\ batch.pc = "closed" /\ p \in matched /\ OwnedBy(p, ComboList) =>
                      ImportsOf(p, "combo") = 1
        /\ batch.pBar.wasCanceled =>
               batch.pc = "returned" /\ Len(batch.calls) = batch.pBar.value
        /\ ~batch.pBar.wasCanceled => Len(batch.calls) = batch.pBar.value + 1

\* C17: importObjFolder imports in dependency order, a file matching shape X
\* when its base name is X or X_Extract: the matched shapes of sliders are
\* imported before any shape of a combo, the combos' shapes in non-decreasing
\* order of their combo's number of slider pairs, each matched shape is
\* imported, and a cancel noticed before an import stops the operation with
\* that file and all later ones not imported
C17_ImportInDependencyOrder ==
    ImportsInOrder({p \in PairIds : FileForEither(p)})

\* C17, with a file matching the shape named by its base name and only when
\* there is no such shape the shape named by the base name less its
\* "_Extract": same order, same completeness, same cancellation
C17_ImportExactNameFirst ==
    ImportsInOrder({p \in PairIds : FileForExactFirst(p)})

\* C17: a slider's shape, then the shape of the one-slider combo, were imported
\* and the import was cancelled before the shape of the two-slider combo
C17_Witness ==
    /\ batch.op = "importObjFolder"
    /\ batch.pc = "returned"
    /\ batch.pBar.wasCanceled
    /\ Len(batch.work) = 3
    /\ batch.work[3] = [pair |-> 2, owner |-> "combo"]
    /\ batch.calls = <<[pair |-> 1, owner |-> "slider"], [pair |-> 4, owner |-> "combo"]>>

\* the positions, in the combos handed to setSliderVals, of the combos with a
\* pair on slider s
CombosWith(s) ==
    {i \in 1..Len(ui.input) :
        \E k \in 1..Len(ComboPairs(ui.input[i])) : ComboPairs(ui.input[i])[k].slider = s}

\* the value of the first pair of combo c on slider s
FirstValue(c, s) ==
    LET on == {k \in 1..Len(ComboPairs(c)) : ComboPairs(c)[k].slider = s}
    IN  ComboPairs(c)[CHOOSE k \in on : \A j \in on : k <= j].value

\* C18: right after setSliderVals with a system loaded, a slider of no selected
\* combo has weight 0 and a slider of some selected combo has the value of its
\* pair in the first selected combo, in selection order, that contains it
C18_FirstComboSetsSlider ==
    ui.lastOp = "setSliderVals" /\ IsLoaded(ui) =>
        \A s \in Sliders :
            IF CombosWith(s) = {} THEN ui.weights[s] = 0
            ELSE ui.weights[s] =
                     FirstValue(ui.input[CHOOSE i \in CombosWith(s) :
                                            \A j \in CombosWith(s) : i <= j], s)

\* C18: setSliderVals ran with c2 selected before c1: s2, a slider of both, has
\* c2's value and s1 has c1's
C18_Witness ==
    /\ ui.lastOp = "setSliderVals"
    /\ IsLoaded(ui)
    /\ ui.input = <<"c2", "c1">>
    /\ ui.weights["s1"] = 10
    /\ ui.weights["s2"] = -10

\* C19: right after exportSystemTemplate: with no current object the warning
\* was shown and nothing was written; with a current object but no system
\* loaded nothing was written and no error was raised; with a system loaded
\* and a path ending in .smpx or .json the system was written in that format
C19_ExportOnlyLoadedSystem ==
    ui.lastOp = "exportSystemTemplate" =>
        /\ ui.currentObject = NoneObj =>
               ui.warned = "Must have a current object selection" /\ ui.written = ""
        /\ ui.currentObject /= NoneObj /\ ~IsLoaded(ui) =>
               ui.written = "" /\ ui.err = ""
        /\ IsLoaded(ui) /\ ui.input \in {".smpx", ".json"} => ui.written = ui.input

\* C19 less its case of an object without a system: the warning without a
\* current object, the file written with a system loaded, and nothing written
\* in any other case
C19_ExportWritesLoadedSystem ==
    ui.lastOp = "exportSystemTemplate" =>
        /\ ui.currentObject = NoneObj =>
               ui.warned = "Must have a current object selection" /\ ui.written = ""
        /\ ~IsLoaded(ui) => ui.written = ""
        /\ IsLoaded(ui) /\ ui.input \in {".smpx", ".json"} => ui.written = ui.input

====
